---- MODULE Spec2Model ----
(***************************************************************************)
(* AerDensityMatrix (qiskit_aer/quantum_info/states/aer_densitymatrix.py): *)
(* construction dispatch, backend-session ownership, copy, from_int and    *)
(* to_statevector.                                                         *)
(*                                                                         *)
(* Heap model.  Python objects have identity, so the state is three heaps: *)
(*   dms      : the AerDensityMatrix objects, index = object identity      *)
(*   sessions : the AerState objects referenced by a live AerDensityMatrix *)
(*   buffers  : the ndarray buffers held in _data, index = identity        *)
(*   rngs     : the np.random.Generator objects held in _rng_generator     *)
(* and `last`, the record of the most recent call (its arguments, its      *)
(* outcome and the AerState it created, with the calls that AerState       *)
(* received).                                                              *)
(*                                                                         *)
(* Specifications:                                                         *)
(*   Spec     : the constructors (construct, copy, from_int,               *)
(*              from_instruction) on a heap of up to MaxEntities objects   *)
(*   SpecPure : one object is constructed, to_statevector is called on it  *)
(*   SpecSelect: the same with relative tolerances up to MaxRtol           *)
(*   SpecRepeat: to_statevector called repeatedly on one object            *)
(*   SpecCopy : construct, copy and in-place changes of a matrix buffer    *)
(*   SpecLabel: from_label on an empty heap                                *)
(*   SpecVector: a statevector or a list, then the array it stands for     *)
(*   SpecRng  : construct, copy, seed and sample_memory                    *)
(*   SpecDispatch: the constructor on one source per branch, with dims     *)
(***************************************************************************)
EXTENDS Integers, Sequences, FiniteSets, TLC

VARIABLES dms, sessions, buffers, rngs, last

vars == <<dms, sessions, buffers, rngs, last>>

(* Bound of the model: number of AerDensityMatrix objects alive at once. *)
MaxEntities == 2

-----------------------------------------------------------------------------
(* Complex numbers are pairs <<re, im>> of integers. *)

C(re, im) == <<re, im>>

CZero == C(0, 0)

COne == C(1, 0)

Conj(z) == C(z[1], 0 - z[2])

CMul(a, b) == C(a[1] * b[1] - a[2] * b[2], a[1] * b[2] + a[2] * b[1])

(* An ndarray is [ndim, rows]: a 2-d array is the sequence of its rows, a  *)
(* 1-d array of n elements is stored as one row of n elements.             *)
Vec(elems) == [ndim |-> 1, rows |-> <<elems>>]

Mat(rows) == [ndim |-> 2, rows |-> rows]

(* len(a): the length of the first dimension. *)
PyLen(a) == IF a.ndim = 1 THEN Len(a.rows[1]) ELSE Len(a.rows)

(* np.outer(v, np.conj(v)) of a 1-d array. *)
Outer(v) ==
    LET e == v.rows[1]
    IN  Mat([i \in 1..Len(e) |-> [j \in 1..Len(e) |-> CMul(e[i], Conj(e[j]))]])

(* np.zeros((size, size), dtype=complex) *)
Zeros(size) == Mat([i \in 1..size |-> [j \in 1..size |-> CZero]])

(* np.product(dims) for a tuple; an int is held as a 1-tuple. *)
RECURSIVE Product(_)
Product(s) == IF s = <<>> THEN 1 ELSE Head(s) * Product(Tail(s))

(* int(np.log2(n)) for n >= 1. *)
RECURSIVE Log2Floor(_)
Log2Floor(n) == IF n <= 1 THEN 0 ELSE 1 + Log2Floor(n \div 2)

RECURSIVE Pow2(_)
Pow2(n) == IF n <= 0 THEN 1 ELSE 2 * Pow2(n - 1)

IsPow2(n) == n >= 1 /\ Pow2(Log2Floor(n)) = n

(* Python's `a in b` for two strings: substring test. *)
StrIn(a, b) == \E i \in 0..(Len(b) - Len(a)) : SubSeq(b, i + 1, i + Len(a)) = a

-----------------------------------------------------------------------------
(* Values a caller can pass as `data`.  A value has a class `cls` (what     *)
(* isinstance sees), the attributes hasattr sees, and the payload of its    *)
(* class; every record carries every field so that values are comparable.   *)
(*   arr   ndarray payload, or the matrix returned by to_operator().data /  *)
(*         to_matrix(); for an AerStatevector its 1-d amplitude vector      *)
(*   list  Python list of real numbers, flat or nested (cls = "list")       *)
(*   nq, phase, ops   num_qubits, global_phase and instruction names of a   *)
(*         QuantumCircuit; nq and ops[1] of a single Instruction            *)
(*   id    identity of an existing AerDensityMatrix (cls AerDensityMatrix)  *)
(*   odims output_dims() of the operator projection                         *)

NoArr == Mat(<<>>)

NoList == [ndim |-> 1, rows |-> << <<>> >>]

Value(cls) ==
    [cls |-> cls, to_operator |-> FALSE, to_matrix |-> FALSE, arr |-> NoArr,
     list |-> NoList, nq |-> 0, phase |-> 0, ops |-> <<>>, id |-> 0, odims |-> <<>>]

Circuit(nq, phase, ops) ==
    [Value("QuantumCircuit") EXCEPT !.nq = nq, !.phase = phase, !.ops = ops]

Instruction(name) == [Value("Instruction") EXCEPT !.nq = 1, !.ops = <<name>>]

PyList(l) == [Value("list") EXCEPT !.list = l]

(* np.array(data, dtype=complex) of a list of real numbers. *)
NpArrayComplex(l) ==
    [ndim |-> l.ndim,
     rows |-> [i \in 1..Len(l.rows) |-> [j \in 1..Len(l.rows[i]) |-> C(l.rows[i][j], 0)]]]

NdArray(a) == [Value("ndarray") EXCEPT !.arr = a]

(* AerDensityMatrix inherits to_operator from the base class. *)
DmRef(id) == [Value("AerDensityMatrix") EXCEPT !.id = id, !.to_operator = TRUE]

(* Dims inferred from a size D: n copies of 2 when D = 2^n, else (D,). *)
AutoDims(D) == IF IsPow2(D) THEN [k \in 1..Log2Floor(D) |-> 2] ELSE <<D>>

(* An AerStatevector with the given amplitudes and inferred dims. *)
StateVec(elems) ==
    [Value("AerStatevector") EXCEPT !.arr = Vec(elems), !.to_operator = TRUE,
                                    !.odims = AutoDims(Len(elems))]

(* An object with to_operator() (and possibly to_matrix() as well). *)
OpObject(a, odims, alsoMatrix) ==
    [Value("Operator") EXCEPT !.arr = a, !.odims = odims, !.to_operator = TRUE,
                              !.to_matrix = alsoMatrix]

(* An object with to_matrix() only. *)
MatObject(a) == [Value("Gate") EXCEPT !.arr = a, !.to_matrix = TRUE]

(* Anything else, e.g. an int. *)
Other == Value("int")

IsInstance(v, classes) == v.cls \in classes

(* Arrays used as inputs. *)
P0 == Mat(<< <<COne, CZero>>, <<CZero, CZero>> >>)

NonHerm == Mat(<< <<COne, C(0, 1)>>, <<CZero, C(2, 0)>> >>)

Diag3 == Mat(<< <<CZero, CZero, CZero>>, <<CZero, COne, CZero>>, <<CZero, CZero, CZero>> >>)

Empty1 == Vec(<<>>)

Empty2 == Mat(<<>>)

E1of2 == Vec(<<CZero, COne>>)

(* A 4 x 4 matrix with pairwise different entries: M4[r, c] = r + c i. *)
M4 == Mat([r \in 1..4 |-> [c \in 1..4 |-> C(r, c)]])

Arrays == {P0, NonHerm, Diag3, Empty1, Empty2, E1of2, M4}

(* The `dims` argument: None, an int or a tuple (an int is held in val[1]). *)
DNone == [kind |-> "none", val |-> <<>>]

DInt(n) == [kind |-> "int", val |-> <<n>>]

DTuple(t) == [kind |-> "tuple", val |-> t]

(* Keyword configurations: an insertion-ordered dict, as a sequence of      *)
(* [key, val] items with distinct keys.                                     *)
Item(k, v) == [key |-> k, val |-> v]

HasKey(kw, k) == \E i \in 1..Len(kw) : kw[i].key = k

Get(kw, k) == kw[CHOOSE i \in 1..Len(kw) : kw[i].key = k].val

-----------------------------------------------------------------------------
(* AerState, the backend session (qiskit_aer/quantum_info/states/           *)
(* aer_state.py), by its contract: created empty, configured, allocated,    *)
(* initialized, evolved, moved out.  `log` is the sequence of calls the     *)
(* object has received, `buf` its state buffer, `phase` the accumulated     *)
(* global phase.                                                            *)

Call(name, key, val, n) == [call |-> name, key |-> key, val |-> val, n |-> n]

AerState(method) ==
    [method |-> method, num_qubits |-> 0, phase |-> 0, log |-> <<>>, buf |-> NoArr]

NoSession == AerState("")

configure(s, key, val) ==
    [s EXCEPT !.log = Append(@, Call("configure", key, val, 0))]

allocate_qubits(s, n) ==
    [s EXCEPT !.num_qubits = n, !.log = Append(@, Call("allocate_qubits", "", "", n))]

(* |0..0><0..0| on n qubits. *)
ReferenceState(n) ==
    Mat([i \in 1..Pow2(n) |-> [j \in 1..Pow2(n) |->
            IF i = 1 /\ j = 1 THEN COne ELSE CZero]])

initialize(s) ==
    [s EXCEPT !.buf = ReferenceState(s.num_qubits),
              !.log = Append(@, Call("initialize", "", "", 0))]

initialize_data(s, data) ==
    [s EXCEPT !.buf = data, !.log = Append(@, Call("initialize", "data", "", 0))]

(* exp(i theta) rho exp(-i theta) = rho: the density matrix is unchanged,   *)
(* the session accumulates the phase.                                       *)
apply_global_phase(s, theta) ==
    [s EXCEPT !.phase = @ + theta,
              !.log = Append(@, Call("apply_global_phase", "", "", theta))]

(* Pauli X on qubit 0: rho -> X rho X swaps the index pairs (2k+1, 2k+2). *)
FlipBit0(i) == IF i % 2 = 1 THEN i + 1 ELSE i - 1

apply_x(s) ==
    [s EXCEPT !.buf = Mat([i \in 1..Len(s.buf.rows) |-> [j \in 1..Len(s.buf.rows) |->
                             s.buf.rows[FlipBit0(i)][FlipBit0(j)]]]),
              !.log = Append(@, Call("apply", "x", "", 0))]

move_to_ndarray(s) ==
    [s EXCEPT !.log = Append(@, Call("move_to_ndarray", "", "", 0))]

(* AerSimulator._default_options(): the option table, key -> default.  A    *)
(* key that is not in the table gives options.get(key) = None, which is     *)
(* falsy, as is a default of None.                                          *)
DefaultOptions ==
    [key \in {"method", "device"} |-> IF key = "method" THEN "automatic" ELSE "CPU"]

OptionsGetTruthy(key) == key \in DOMAIN DefaultOptions /\ DefaultOptions[key] # "None"

(* AerStatevector._aer_evolve_instruction / _aer_evolve_circuit: apply the  *)
(* instructions in order; an instruction that is neither a known gate nor   *)
(* decomposable raises AerError and nothing after it is applied.            *)
KnownGates == {"x"}

Done(s) == [ok |-> TRUE, s |-> s]

Raised(s) == [ok |-> FALSE, s |-> s]

_aer_evolve_instruction(s, name) ==
    IF name \in KnownGates THEN Done(apply_x(s)) ELSE Raised(s)

RECURSIVE _aer_evolve_circuit(_, _)
_aer_evolve_circuit(s, ops) ==
    IF ops = <<>> THEN Done(s)
    ELSE LET r == _aer_evolve_instruction(s, Head(ops))
         IN  IF r.ok THEN _aer_evolve_circuit(r.s, Tail(ops)) ELSE r

-----------------------------------------------------------------------------
(* The base class constructor DensityMatrix.__init__(data, dims=dims) on an *)
(* array: a square matrix is kept, a 1-d array becomes its outer product,   *)
(* anything else is rejected; the dims must multiply to the matrix side D,  *)
(* and omitted (or int) dims are n copies of 2 when D = 2^n, else (D,).     *)

IsSquare(a) == a.ndim = 2 /\ \A i \in 1..Len(a.rows) : Len(a.rows[i]) = Len(a.rows)

BaseInit(a, dims) ==
    LET m == IF a.ndim = 1 THEN Outer(a) ELSE a
        D == Len(m.rows)
    IN  IF ~IsSquare(m)
        THEN [ok |-> FALSE, data |-> NoArr, dims |-> <<>>]
        ELSE CASE dims.kind = "none" -> [ok |-> TRUE, data |-> m, dims |-> AutoDims(D)]
               [] dims.kind = "int" ->
                    [ok |-> dims.val[1] = D, data |-> m, dims |-> AutoDims(D)]
               [] OTHER ->
                    [ok |-> Product(dims.val) = D, data |-> m, dims |-> dims.val]

-----------------------------------------------------------------------------
(* AerDensityMatrix *)

RECURSIVE ConfigureEach(_, _, _)
(* for config_key, config_value in configs.items(): ... configure(...)      *)
(* with (filtered) or without the test `if options.get(config_key)`.        *)
ConfigureEach(s, configs, filtered) ==
    IF configs = <<>> THEN s
    ELSE LET it == Head(configs)
             s1 == IF filtered /\ ~OptionsGetTruthy(it.key) THEN s
                   ELSE configure(s, it.key, it.val)
         IN  ConfigureEach(s1, Tail(configs), filtered)

(* Result of a static constructor helper: (ndarray, aer_state) or a raise. *)
Built(data, s) == [ok |-> TRUE, msg |-> "", data |-> data, s |-> s]

Failed(msg, s) == [ok |-> FALSE, msg |-> msg, data |-> NoArr, s |-> s]

(* A variant of _from_ndarray that tests the length after initializing. *)
_from_ndarray_LateCheck(init_data, configs) ==
    LET s1 == ConfigureEach(AerState("density_matrix"), configs, TRUE)
        s2 == allocate_qubits(s1, Log2Floor(PyLen(init_data)))
        s3 == initialize_data(s2, init_data)
    IN  IF PyLen(init_data) = 0
        THEN Failed("initial data must be larger than 0", s3)
        ELSE Built(s3.buf, move_to_ndarray(s3))

(* A variant of _from_ndarray that initializes without the data. *)
_from_ndarray_Reference(init_data, configs) ==
    LET s1 == ConfigureEach(AerState("density_matrix"), configs, TRUE)
    IN  IF PyLen(init_data) = 0
        THEN Failed("initial data must be larger than 0", s1)
        ELSE LET num_qubits == Log2Floor(PyLen(init_data))
                 s2 == allocate_qubits(s1, num_qubits)
                 s3 == initialize(s2)
             IN  Built(s3.buf, move_to_ndarray(s3))

_from_ndarray(init_data, configs) ==
    LET s1 == ConfigureEach(AerState("density_matrix"), configs, TRUE)
    IN  IF PyLen(init_data) = 0
        THEN Failed("initial data must be larger than 0", s1)
        ELSE LET num_qubits == Log2Floor(PyLen(init_data))
                 s2 == allocate_qubits(s1, num_qubits)
                 s3 == initialize_data(s2, init_data)
             IN  Built(s3.buf, move_to_ndarray(s3))

(* A variant of _from_instruction that applies the global phase after the   *)
(* instructions.                                                            *)
_from_instruction_PhaseLate(inst, configs) ==
    LET s1 == ConfigureEach(AerState("density_matrix"), configs, FALSE)
        s2 == allocate_qubits(s1, inst.nq)
        s3 == initialize(s2)
        r  == IF IsInstance(inst, {"QuantumCircuit"})
              THEN _aer_evolve_circuit(s3, inst.ops)
              ELSE _aer_evolve_instruction(s3, inst.ops[1])
        s4 == IF IsInstance(inst, {"QuantumCircuit"}) /\ inst.phase # 0
              THEN apply_global_phase(r.s, inst.phase)
              ELSE r.s
    IN  IF r.ok THEN Built(s4.buf, move_to_ndarray(s4))
        ELSE Failed("cannot decompose", r.s)

(* A variant of _from_instruction that goes on after an instruction has     *)
(* failed.                                                                  *)
_from_instruction_IgnoreFailure(inst, configs) ==
    LET s1 == ConfigureEach(AerState("density_matrix"), configs, FALSE)
        s2 == allocate_qubits(s1, inst.nq)
        s3 == initialize(s2)
        s4 == IF IsInstance(inst, {"QuantumCircuit"}) /\ inst.phase # 0
              THEN apply_global_phase(s3, inst.phase)
              ELSE s3
        r  == IF IsInstance(inst, {"QuantumCircuit"})
              THEN _aer_evolve_circuit(s4, inst.ops)
              ELSE _aer_evolve_instruction(s4, inst.ops[1])
    IN  Built(r.s.buf, move_to_ndarray(r.s))

(* A variant of _from_instruction that starts from an all-zero buffer       *)
(* instead of the reference state.                                          *)
_from_instruction_ZeroBuffer(inst, configs) ==
    LET s1 == ConfigureEach(AerState("density_matrix"), configs, FALSE)
        s2 == allocate_qubits(s1, inst.nq)
        s3 == [initialize(s2) EXCEPT !.buf = Zeros(Pow2(inst.nq))]
        s4 == IF IsInstance(inst, {"QuantumCircuit"}) /\ inst.phase # 0
              THEN apply_global_phase(s3, inst.phase)
              ELSE s3
        r  == IF IsInstance(inst, {"QuantumCircuit"})
              THEN _aer_evolve_circuit(s4, inst.ops)
              ELSE _aer_evolve_instruction(s4, inst.ops[1])
    IN  IF r.ok THEN Built(r.s.buf, move_to_ndarray(r.s))
        ELSE Failed("cannot decompose", r.s)

(* _from_instruction(inst, None, configs): __init__ always passes           *)
(* init_data = None.                                                        *)
_from_instruction(inst, configs) ==
    LET s1 == ConfigureEach(AerState("density_matrix"), configs, FALSE)
        s2 == allocate_qubits(s1, inst.nq)
        s3 == initialize(s2)
        s4 == IF IsInstance(inst, {"QuantumCircuit"}) /\ inst.phase # 0
              THEN apply_global_phase(s3, inst.phase)
              ELSE s3
        r  == IF IsInstance(inst, {"QuantumCircuit"})
              THEN _aer_evolve_circuit(s4, inst.ops)
              ELSE _aer_evolve_instruction(s4, inst.ops[1])
    IN  IF r.ok THEN Built(r.s.buf, move_to_ndarray(r.s))
        ELSE Failed("cannot decompose", r.s)

(* A variant of ToOperator whose outer product is not conjugated. *)
ToOperator_NoConj(v) ==
    IF IsInstance(v, {"AerStatevector"})
    THEN [data |-> Mat([i \in 1..PyLen(v.arr) |-> [j \in 1..PyLen(v.arr) |->
                          CMul(v.arr.rows[1][i], v.arr.rows[1][j])]]),
          output_dims |-> v.odims]
    ELSE [data |-> v.arr, output_dims |-> v.odims]

(* data.to_operator(): the operator's matrix and its output dims.  An       *)
(* AerStatevector projects to the outer product of its amplitudes.          *)
ToOperator(v) ==
    IF IsInstance(v, {"AerStatevector"})
    THEN [data |-> Outer(v.arr), output_dims |-> v.odims]
    ELSE [data |-> v.arr, output_dims |-> v.odims]

(* What a call of the constructor leaves behind.                            *)
(*   outcome  "ok" or the class of the exception raised                     *)
(*   msg      the exception's message, reported the value it interpolates   *)
(*   data     the matrix handed to / kept by the base class                 *)
(*   alias    identity of the existing buffer that matrix is, or 0 when it  *)
(*            is a new array                                                *)
(*   dims     the dims of the new object                                    *)
(*   sid      identity of an existing AerState the object refers to, or 0   *)
(*            when it refers to the AerState created by this call           *)
(*   created, sess   whether this call created an AerState, and that object *)
(*   configs  self._configs                                                 *)
(*   rng      self._rng_generator: None, a new Generator or an existing one *)
Gen(seed, draws) == [seed |-> seed, draws |-> draws]

NoRng == [kind |-> "none", state |-> Gen(0, 0), id |-> 0]

(* copy.deepcopy of the generator `id` (0: None). *)
DeepCopyRng(id) ==
    IF id = 0 THEN NoRng ELSE [kind |-> "new", state |-> rngs[id], id |-> 0]

Raise(cls, msg, reported, created, sess) ==
    [outcome |-> cls, msg |-> msg, reported |-> reported, data |-> NoArr, alias |-> 0,
     dims |-> <<>>, sid |-> 0, created |-> created, sess |-> sess, configs |-> <<>>,
     rng |-> NoRng]

(* A variant of SuperInit that takes the dims as they are given. *)
SuperInitUnchecked(a, alias, dims, sid, created, sess, configs) ==
    LET b == BaseInit(a, DNone)
    IN  IF b.ok
        THEN [outcome |-> "ok", msg |-> "", reported |-> "", data |-> b.data,
              alias |-> IF a.ndim = 2 THEN alias ELSE 0,
              dims |-> IF dims.kind = "tuple" THEN dims.val ELSE b.dims,
              sid |-> sid, created |-> created, sess |-> sess, configs |-> configs,
              rng |-> NoRng]
        ELSE Raise("QiskitError", "Invalid input", "", created, sess)

(* super().__init__(data, dims=dims); self._result = None;                 *)
(* self._configs = configs.  np.asarray keeps a 2-d complex array as it is  *)
(* (same buffer); the outer product of a 1-d array is a new array.  The     *)
(* base class sets _rng_generator = None.                                   *)
SuperInit(a, alias, dims, sid, created, sess, configs) ==
    LET b == BaseInit(a, dims)
    IN  IF b.ok
        THEN [outcome |-> "ok", msg |-> "", reported |-> "", data |-> b.data,
              alias |-> IF a.ndim = 2 THEN alias ELSE 0, dims |-> b.dims, sid |-> sid, created |-> created, sess |-> sess,
              configs |-> configs, rng |-> NoRng]
        ELSE Raise("QiskitError", "Invalid input", "", created, sess)

(* The tail of a branch that called _from_ndarray or _from_instruction. *)
AfterHelper(h, dims, configs) ==
    IF h.ok THEN SuperInit(h.data, 0, dims, 0, TRUE, h.s, configs)
    ELSE Raise("AerError", h.msg, "", TRUE, h.s)

(* aer_state = data._aer_state *)
SourceSession(id) == dms[id].aer_state

(* if dims is None: dims = data._op_shape._dims_l *)
InheritDims(id, dims) == IF dims.kind = "none" THEN DTuple(dms[id].dims) ELSE dims

(* A variant of CopyData that keeps the source's own buffer. *)
CopyDataAlias(id) == [arr |-> buffers[dms[id].data], alias |-> dms[id].data]

(* data = data._data.copy() *)
CopyData(id) == [arr |-> buffers[dms[id].data], alias |-> 0]

(* A variant of Unsupported that falls back to the array path. *)
UnsupportedFallback(data, dims, configs) ==
    AfterHelper(_from_ndarray(data.arr, configs), dims, configs)

(* raise AerError(f'Input data is not supported: type={data.__class__}, ...') *)
Unsupported(data, dims, configs) ==
    Raise("AerError", "Input data is not supported", data.cls, FALSE, NoSession)

(* A variant of __init__ that looks for to_operator before it tests for an  *)
(* AerDensityMatrix.                                                        *)
__init___OperatorFirst(data, dims, inj, kw) ==
    IF inj # 0
    THEN SuperInit(IF IsInstance(data, {"list"}) THEN NpArrayComplex(data.list)
                   ELSE data.arr, 0, dims, inj, FALSE, NoSession, kw)
    ELSE IF HasKey(kw, "method") /\ ~StrIn(Get(kw, "method"), "density_matrix")
    THEN Raise("AerError", "Method is not supported", Get(kw, "method"), FALSE, NoSession)
    ELSE LET configs == IF HasKey(kw, "method") THEN kw
                        ELSE Append(kw, Item("method", "density_matrix"))
         IN  IF IsInstance(data, {"QuantumCircuit", "Instruction"})
             THEN AfterHelper(_from_instruction(data, configs), dims, configs)
             ELSE IF IsInstance(data, {"list"})
             THEN AfterHelper(_from_ndarray(NpArrayComplex(data.list), configs), dims, configs)
             ELSE IF IsInstance(data, {"ndarray"})
             THEN AfterHelper(_from_ndarray(data.arr, configs), dims, configs)
             ELSE IF data.to_operator
             THEN LET op == IF IsInstance(data, {"AerDensityMatrix"})
                            THEN [data |-> buffers[dms[data.id].data],
                                  output_dims |-> dms[data.id].dims]
                            ELSE ToOperator(data)
                  IN  AfterHelper(_from_ndarray(op.data, configs),
                                  IF dims.kind = "none" THEN DTuple(op.output_dims) ELSE dims,
                                  configs)
             ELSE IF data.to_matrix
             THEN AfterHelper(_from_ndarray(data.arr, configs), dims, configs)
             ELSE Unsupported(data, dims, configs)

(* AerDensityMatrix.__init__(data, dims, **configs).  `inj` is the value of *)
(* the '_aer_state' keyword (0: the keyword is absent), `kw` the remaining  *)
(* keywords.  With '_aer_state' the data goes to the base class unchanged;  *)
(* that branch is modelled for list and array data, the base class's own    *)
(* dispatch over other values being outside this class.                     *)
__init__(data, dims, inj, kw) ==
    IF inj # 0
    THEN SuperInit(IF IsInstance(data, {"list"}) THEN NpArrayComplex(data.list)
                   ELSE data.arr, 0, dims, inj, FALSE, NoSession, kw)
    ELSE IF HasKey(kw, "method") /\ ~StrIn(Get(kw, "method"), "density_matrix")
    THEN Raise("AerError", "Method is not supported", Get(kw, "method"), FALSE, NoSession)
    ELSE LET configs == IF HasKey(kw, "method") THEN kw
                        ELSE Append(kw, Item("method", "density_matrix"))
         IN  IF IsInstance(data, {"QuantumCircuit", "Instruction"})
             THEN AfterHelper(_from_instruction(data, configs), dims, configs)
             ELSE IF IsInstance(data, {"list"})
             THEN AfterHelper(_from_ndarray(NpArrayComplex(data.list), configs), dims, configs)
             ELSE IF IsInstance(data, {"ndarray"})
             THEN AfterHelper(_from_ndarray(data.arr, configs), dims, configs)
             ELSE IF IsInstance(data, {"AerDensityMatrix"})
             THEN LET copied == CopyData(data.id)
                  IN  SuperInit(copied.arr, copied.alias, InheritDims(data.id, dims),
                                SourceSession(data.id), FALSE, NoSession, configs)
             ELSE IF data.to_operator
             THEN LET op == ToOperator(data)
                  IN  AfterHelper(_from_ndarray(op.data, configs),
                                  IF dims.kind = "none" THEN DTuple(op.output_dims) ELSE dims,
                                  configs)
             ELSE IF data.to_matrix
             THEN AfterHelper(_from_ndarray(data.arr, configs), dims, configs)
             ELSE Unsupported(data, dims, configs)

(* A variant of __deepcopy__ whose result keeps self's buffer. *)
__deepcopy__SameBuffer(self) ==
    LET ret == __init__(NdArray(buffers[dms[self].data]), DNone, 0, dms[self].configs)
    IN  IF ret.outcome = "ok"
        THEN [ret EXCEPT !.dims = dms[self].dims, !.alias = dms[self].data,
                         !.rng = DeepCopyRng(dms[self].rng)]
        ELSE ret

(* A variant of __deepcopy__ whose result keeps self's generator. *)
__deepcopy__SameRng(self) ==
    LET ret == __init__(NdArray(buffers[dms[self].data]), DNone, 0, dms[self].configs)
    IN  IF ret.outcome = "ok"
        THEN [ret EXCEPT !.dims = dms[self].dims,
                         !.rng = IF dms[self].rng = 0 THEN NoRng
                                 ELSE [kind |-> "same", state |-> rngs[dms[self].rng],
                                       id |-> dms[self].rng]]
        ELSE ret

(* __deepcopy__: AerDensityMatrix(self._data.copy(), **self._configs), then *)
(* ret._op_shape = copy.deepcopy(self._op_shape) and                        *)
(* ret._rng_generator = copy.deepcopy(self._rng_generator).                 *)
__deepcopy__(self) ==
    LET ret == __init__(NdArray(buffers[dms[self].data]), DNone, 0, dms[self].configs)
    IN  IF ret.outcome = "ok"
        THEN [ret EXCEPT !.dims = dms[self].dims, !.rng = DeepCopyRng(dms[self].rng)]
        ELSE ret

(* A variant of from_int that sets the entry after the one asked for. *)
from_int_OffByOne(i, dims) ==
    LET size == Product(dims.val)
        k == IF i < 0 THEN size + i + 2 ELSE i + 2
        state == Mat([r \in 1..size |-> [c \in 1..size |->
                        IF r = k /\ c = k THEN COne ELSE CZero]])
    IN  IF i >= size \/ i < 0 - size
        THEN Raise("IndexError", "index is out of bounds", "", FALSE, NoSession)
        ELSE __init__(NdArray(state), dims, 0, <<>>)

(* from_int(i, dims): state[i, i] = 1.0 on np.zeros((size, size)); numpy    *)
(* raises IndexError outside [-size, size) and counts a negative index from *)
(* the end.                                                                 *)
from_int(i, dims) ==
    LET size == Product(dims.val)
        k == IF i < 0 THEN size + i + 1 ELSE i + 1
        z == Zeros(size)
        state == Mat([r \in 1..size |-> [c \in 1..size |->
                        IF r = k /\ c = k THEN COne ELSE z.rows[r][c]]])
    IN  IF i >= size \/ i < 0 - size
        THEN Raise("IndexError", "index is out of bounds", "", FALSE, NoSession)
        ELSE __init__(NdArray(state), dims, 0, <<>>)

from_instruction(instruction) == __init__(instruction, DNone, 0, <<>>)

(* from_label.  A label is a sequence of the characters 0, 1, +, -, r, l.   *)
(* The amplitudes of the eigenstates of X and Y carry a factor 1/sqrt(2)    *)
(* and their density matrices a factor 1/2; to stay in exact arithmetic the *)
(* amplitude vector of a label with k characters out of +, -, r, l is held  *)
(* as its numerators over sqrt(2)^k and every matrix derived from it as its *)
(* numerators over 2^k.                                                     *)

LabelChars == {"0", "1", "+", "-", "r", "l"}

(* np.kron of two 1-d arrays (as sequences of elements). *)
KronVec(u, v) ==
    [k \in 1..(Len(u) * Len(v)) |->
        CMul(u[((k - 1) \div Len(v)) + 1], v[((k - 1) % Len(v)) + 1])]

(* np.kron of two 2-d arrays. *)
Kron(a, b) ==
    LET n == Len(b.rows)
    IN  Mat([r \in 1..(Len(a.rows) * n) |-> [c \in 1..(Len(a.rows) * n) |->
              CMul(a.rows[((r - 1) \div n) + 1][((c - 1) \div n) + 1],
                   b.rows[((r - 1) % n) + 1][((c - 1) % n) + 1])]])

(* The single-qubit state of a label character (numerators). *)
LabelVector(ch) ==
    CASE ch = "0" -> <<COne, CZero>>
      [] ch = "1" -> <<CZero, COne>>
      [] ch = "+" -> <<COne, COne>>
      [] ch = "-" -> <<COne, C(0 - 1, 0)>>
      [] ch = "r" -> <<COne, C(0, 1)>>
      [] ch = "l" -> <<COne, C(0, 0 - 1)>>

RECURSIVE LabelAmplitudes(_)
(* The amplitudes of the product state of a label, its first character      *)
(* being the leftmost tensor factor.                                        *)
LabelAmplitudes(label) ==
    IF Len(label) = 1 THEN LabelVector(label[1])
    ELSE KronVec(LabelVector(Head(label)), LabelAmplitudes(Tail(label)))

(* AerStatevector.from_label(label): the product state of the label on      *)
(* len(label) qubits.                                                       *)
AerStatevector_from_label(label) == StateVec(LabelAmplitudes(label))

(* The label read right to left. *)
Reversed(label) == [k \in 1..Len(label) |-> label[Len(label) + 1 - k]]

(* A variant of from_label that reads the label right to left. *)
from_label_Reversed(label) ==
    __init__(AerStatevector_from_label(Reversed(label)), DNone, 0, <<>>)

(* from_label(label): AerDensityMatrix(AerStatevector.from_label(label)) *)
from_label(label) == __init__(AerStatevector_from_label(label), DNone, 0, <<>>)

-----------------------------------------------------------------------------
(* to_statevector: tolerances, the Hermiticity test and the eigen-solver.   *)

CAdd(a, b) == C(a[1] + b[1], a[2] + b[2])

CSub(a, b) == C(a[1] - b[1], a[2] - b[2])

(* |z|^2 *)
Abs2(z) == z[1] * z[1] + z[2] * z[2]

(* The optional arguments atol / rtol: None or a number. *)
TNone == [given |-> FALSE, val |-> 0]

Tol(x) == [given |-> TRUE, val |-> x]

(* self.atol and self.rtol, the class-wide defaults (1e-8 and 1e-5).  The   *)
(* matrices here have integer entries and integer eigenvalues, on which     *)
(* every pair of tolerances with atol + rtol * |b| < 1 decides as 0 does.   *)
DefaultTol == [atol |-> 0, rtol |-> 0]

(* sqrt(m) <= a + r * sqrt(n) for naturals m, a, r, n, without roots: when  *)
(* sqrt(m) > a both sides of sqrt(m) - a <= r * sqrt(n) are nonnegative and *)
(* can be squared, and again after isolating 2 a sqrt(m).                   *)
WithinTol(m, a, r, n) ==
    IF m <= a * a THEN TRUE
    ELSE LET d == m + a * a - r * r * n
         IN  IF d <= 0 THEN TRUE ELSE d * d <= 4 * a * a * m

(* np.isclose(z, w, atol=atol, rtol=rtol): |z - w| <= atol + rtol * |w| *)
IsClose(z, w, atol, rtol) == WithinTol(Abs2(CSub(z, w)), atol, rtol, Abs2(w))

(* is_hermitian_matrix(mat, atol=atol, rtol=rtol): a 2-d array with         *)
(* np.allclose(mat, np.conj(mat.T)).                                        *)
is_hermitian_matrix(mat, atol, rtol) ==
    /\ IsSquare(mat)
    /\ \A i, j \in 1..Len(mat.rows) :
          IsClose(mat.rows[i][j], Conj(mat.rows[j][i]), atol, rtol)

(* Sum of f[1..n] for a function f to complex numbers. *)
RECURSIVE CSum(_, _)
CSum(f, n) == IF n = 0 THEN CZero ELSE CAdd(CSum(f, n - 1), f[n])

MatVec(a, v) ==
    [i \in 1..Len(a.rows) |-> CSum([j \in 1..Len(v) |-> CMul(a.rows[i][j], v[j])], Len(v))]

MatMul(a, b) ==
    Mat([i \in 1..Len(a.rows) |-> [j \in 1..Len(a.rows) |->
            CSum([k \in 1..Len(a.rows) |-> CMul(a.rows[i][k], b.rows[k][j])], Len(a.rows))]])

RECURSIVE MatPow(_, _)
MatPow(a, p) == IF p = 1 THEN a ELSE MatMul(MatPow(a, p - 1), a)

Trace(a) == CSum([i \in 1..Len(a.rows) |-> a.rows[i][i]], Len(a.rows))

RECURSIVE CPow(_, _)
CPow(z, p) == IF p = 0 THEN COne ELSE CMul(CPow(z, p - 1), z)

(* Determinant of a sequence of rows, by expansion along the first row. *)
RECURSIVE Det(_)
Det(rows) ==
    IF Len(rows) = 0 THEN COne
    ELSE LET n == Len(rows)
             Minor(j) == [i \in 1..(n - 1) |-> [c \in 1..(n - 1) |->
                              rows[i + 1][IF c < j THEN c ELSE c + 1]]]
             Term(j) == LET t == CMul(rows[1][j], Det(Minor(j)))
                        IN  IF j % 2 = 1 THEN t ELSE CSub(CZero, t)
         IN  CSum([j \in 1..n |-> Term(j)], n)

(* Bound of the model: eigenvalues have real and imaginary part of          *)
(* magnitude at most MaxEval.                                               *)
MaxEval == 2

EvalDomain == {C(re, im) : re \in (0 - MaxEval)..MaxEval, im \in (0 - MaxEval)..MaxEval}

(* Directions of eigenvectors: every component is 0 or a fourth root of     *)
(* unity, not all 0.  The solver returns unit vectors, so a direction v     *)
(* stands for v / sqrt(Norm2(v)).                                           *)
Digits == {CZero, COne, C(0 - 1, 0), C(0, 1), C(0, 0 - 1)}

EigVecDomain(D) == {v \in [1..D -> Digits] : \E i \in 1..D : v[i] # CZero}

Norm2(v) == CSum([i \in 1..Len(v) |-> C(Abs2(v[i]), 0)], Len(v))[1]

(* <psi|v> *)
Inner(psi, v) == CSum([i \in 1..Len(v) |-> CMul(Conj(psi[i]), v[i])], Len(v))

Eigenvectors(a, lam) ==
    {v \in EigVecDomain(Len(a.rows)) :
        MatVec(a, v) = [i \in 1..Len(v) |-> CMul(lam, v[i])]}

Eigenvalues(a) == {lam \in EvalDomain : Eigenvectors(a, lam) # {}}

(* The eigenvalues with their multiplicities, in every order: the sequences *)
(* of D eigenvalues whose power sums are the traces of the powers of a.     *)
Spectra(a) ==
    LET D == Len(a.rows)
        ev == Eigenvalues(a)
    IN  {e \in [1..D -> ev] :
            \A p \in 1..D : CSum([k \in 1..D |-> CPow(e[k], p)], D) = Trace(MatPow(a, p))}

(* The sequences of n vectors, the k-th taken from F[k]. *)
RECURSIVE Columns(_, _)
Columns(F, n) ==
    IF n = 0 THEN {<<>>} ELSE {Append(s, v) : s \in Columns(F, n - 1), v \in F[n]}

(* np.linalg.eig(a): eigenvalues evals and unit eigenvectors evecs[k] (the  *)
(* column evecs[:, k]) with a evecs[k] = evals[k] evecs[k], the columns     *)
(* linearly independent.  The order of the eigenvalues, the phase of an     *)
(* eigenvector and the basis of a degenerate eigenspace are the solver's.   *)
eig(a) ==
    LET D == Len(a.rows)
    IN  UNION { {[evals |-> e, evecs |-> c] :
                    c \in {b \in Columns([k \in 1..D |-> Eigenvectors(a, e[k])], D) :
                              Det(b) # CZero}} :
                e \in Spectra(a) }

(* np.argmax of a complex array: the order is by real part, then by         *)
(* imaginary part; the first of equal maxima.                               *)
Greater(z, w) == z[1] > w[1] \/ (z[1] = w[1] /\ z[2] > w[2])

ArgMax(evals) ==
    CHOOSE k \in 1..Len(evals) :
        /\ \A j \in 1..Len(evals) : ~Greater(evals[j], evals[k])
        /\ \A j \in 1..(k - 1) : Greater(evals[k], evals[j])

(* evals[abs(evals) > atol] *)
NonzeroEvals(evals, atol) ==
    LET Test(z) == Abs2(z) > atol * atol
    IN  SelectSeq(evals, Test)

(* What a call of to_statevector leaves behind: the AerStatevector returned *)
(* (its amplitudes psi, as a direction) or the QiskitError raised.          *)
Vector(psi) == [outcome |-> "ok", msg |-> "", psi |-> psi]

NotHermitian ==
    [outcome |-> "QiskitError", msg |-> "Not a valid density matrix (non-hermitian).",
     psi |-> <<>>]

NotPure ==
    [outcome |-> "QiskitError", msg |-> "Density matrix is not a pure state", psi |-> <<>>]

(* A variant of to_statevector that tests the eigenvalues first. *)
to_statevector_PurityFirst(data, atol, rtol, evals, evecs) ==
    LET a == IF atol.given THEN atol.val ELSE DefaultTol.atol
        r == IF rtol.given THEN rtol.val ELSE DefaultTol.rtol
        nonzero_evals == NonzeroEvals(evals, a)
    IN  IF Len(nonzero_evals) # 1 \/ ~IsClose(nonzero_evals[1], COne, a, r)
        THEN NotPure
        ELSE IF ~is_hermitian_matrix(data, a, r)
        THEN NotHermitian
        ELSE Vector(evecs[ArgMax(evals)])

(* A variant of to_statevector that only counts the nonzero eigenvalues. *)
to_statevector_CountOnly(data, atol, rtol, evals, evecs) ==
    LET a == IF atol.given THEN atol.val ELSE DefaultTol.atol
        r == IF rtol.given THEN rtol.val ELSE DefaultTol.rtol
        nonzero_evals == NonzeroEvals(evals, a)
    IN  IF ~is_hermitian_matrix(data, a, r)
        THEN NotHermitian
        ELSE IF Len(nonzero_evals) # 1
        THEN NotPure
        ELSE Vector(evecs[ArgMax(evals)])

(* A variant of to_statevector that returns the first column of evecs. *)
to_statevector_FirstColumn(data, atol, rtol, evals, evecs) ==
    LET a == IF atol.given THEN atol.val ELSE DefaultTol.atol
        r == IF rtol.given THEN rtol.val ELSE DefaultTol.rtol
        nonzero_evals == NonzeroEvals(evals, a)
    IN  IF ~is_hermitian_matrix(data, a, r)
        THEN NotHermitian
        ELSE IF Len(nonzero_evals) # 1 \/ ~IsClose(nonzero_evals[1], COne, a, r)
        THEN NotPure
        ELSE Vector(evecs[1])

(* to_statevector(atol, rtol) on self.data; evals, evecs is what            *)
(* np.linalg.eig(self.data) returns (it is not called when the Hermiticity  *)
(* test raises).                                                            *)
to_statevector(data, atol, rtol, evals, evecs) ==
    LET a == IF atol.given THEN atol.val ELSE DefaultTol.atol
        r == IF rtol.given THEN rtol.val ELSE DefaultTol.rtol
        nonzero_evals == NonzeroEvals(evals, a)
    IN  IF ~is_hermitian_matrix(data, a, r)
        THEN NotHermitian
        ELSE IF Len(nonzero_evals) # 1 \/ ~IsClose(nonzero_evals[1], COne, a, r)
        THEN NotPure
        ELSE Vector(evecs[ArgMax(evals)])

-----------------------------------------------------------------------------
(* Inputs. *)

(* Bound of the model: from_int is called with |i| <= MaxIndex. *)
MaxIndex == 3

Sources ==
    { Circuit(1, 0, <<>>), Circuit(2, 0, <<>>), Circuit(1, 1, <<"x">>),
      Circuit(2, 0, <<"x">>),
      Circuit(1, 1, <<"x", "foo", "x">>),
      Instruction("x"), Instruction("foo"),
      PyList(Vec(<<>>)), PyList(Mat(<< <<1, 0>>, <<0, 0>> >>)),
      StateVec(<<COne, C(0, 1)>>),
      OpObject(P0, <<2>>, TRUE), OpObject(Empty2, <<>>, FALSE),
      MatObject(NonHerm), MatObject(Empty1),
      Other }
    \cup { NdArray(a) : a \in Arrays }

KwMethod(m) == <<Item("method", m)>>

KwArgs ==
    { KwMethod("density_matrix"), KwMethod("statevector"), KwMethod("density"),
      <<Item("device", "GPU"), Item("foo", "1")>> }

Args(data, dims, kw) == [data |-> data, dims |-> dims, kw |-> kw]

(* Arguments of construct calls that do not refer to an existing object:    *)
(* every source alone, dims against sources of side 2, 3 and 4, keywords    *)
(* against an array and a circuit, a rejected method against sources that   *)
(* fail on their own.                                                       *)
ConstructArgs ==
    { Args(d, DNone, <<>>) : d \in Sources }
    \cup { Args(d, dims, <<>>) :
             d \in {NdArray(P0), NdArray(Diag3), OpObject(P0, <<2>>, TRUE)},
             dims \in {DInt(2), DTuple(<<3>>)} }
    \cup { Args(NdArray(M4), dims, <<>>) : dims \in {DInt(4), DTuple(<<4>>)} }
    \cup { Args(d, DNone, kw) : d \in {NdArray(P0), Circuit(1, 1, <<"x">>)}, kw \in KwArgs }
    \cup { Args(d, DNone, KwMethod(m)) :
             d \in {Other, NdArray(Empty1)}, m \in {"statevector", "density"} }

(* Arguments of construct calls on an existing AerDensityMatrix `id`. *)
CopyFromArgs(id) ==
    { Args(DmRef(id), dims, <<>>) : dims \in {DNone, DInt(2), DTuple(<<3>>), DTuple(<<4>>)} }
    \cup { Args(DmRef(id), DNone, KwMethod("statevector")) }

FromIntDims == {DInt(2), DInt(4), DTuple(<<3>>)}

FromInstructionArgs == {Circuit(1, 0, <<>>), Instruction("x"), NdArray(P0), Other}

-----------------------------------------------------------------------------
(* State machine. *)

NoCall ==
    [op |-> "none", data |-> Other, dims |-> DNone, inj |-> 0, kw |-> <<>>, i |-> 0,
     self |-> 0, outcome |-> "none", msg |-> "", reported |-> "", dm |-> 0,
     created |-> FALSE, sess |-> NoSession,
     atol |-> TNone, rtol |-> TNone, psi |-> <<>>, touched |-> 0, label |-> <<>>,
     rngop |-> "", seed |-> [given |-> FALSE, val |-> 0]]

Init ==
    /\ dms = <<>>
    /\ sessions = <<>>
    /\ buffers = <<>>
    /\ rngs = <<>>
    /\ last = NoCall

(* A variant of Return in which a call on an AerDensityMatrix configures    *)
(* that object's AerState.                                                  *)
ReturnConfiguresSource(call, r) ==
    LET touched == IF IsInstance(call.data, {"AerDensityMatrix"})
                   THEN [sessions EXCEPT ![dms[call.data.id].aer_state] =
                                            configure(@, "method", "density_matrix")]
                   ELSE sessions
    IN  /\ IF r.outcome = "ok"
           THEN /\ buffers' = IF r.alias = 0 THEN Append(buffers, r.data) ELSE buffers
                /\ sessions' = IF r.created THEN Append(touched, r.sess) ELSE touched
                /\ rngs' = IF r.rng.kind = "new" THEN Append(rngs, r.rng.state) ELSE rngs
                /\ dms' = Append(dms, [data |-> IF r.alias = 0 THEN Len(buffers) + 1
                                                 ELSE r.alias,
                                       dims |-> r.dims,
                                       aer_state |-> IF r.created THEN Len(sessions) + 1
                                                     ELSE r.sid,
                                       configs |-> r.configs,
                                       rng |-> IF r.rng.kind = "new" THEN Len(rngs) + 1
                                               ELSE r.rng.id])
           ELSE /\ sessions' = touched
                /\ UNCHANGED <<dms, buffers, rngs>>
        /\ last' = [call EXCEPT !.outcome = r.outcome, !.msg = r.msg,
                                !.reported = r.reported,
                                !.dm = IF r.outcome = "ok" THEN Len(dms) + 1 ELSE 0,
                                !.created = r.created, !.sess = r.sess]

(* The effect of a call with result r: a successful call adds the new       *)
(* object, its buffer and (when it created one) its AerState to the heaps;  *)
(* a raise adds nothing.  A deep-copied generator is a new object.          *)
Return(call, r) ==
    /\ IF r.outcome = "ok"
       THEN /\ buffers' = IF r.alias = 0 THEN Append(buffers, r.data) ELSE buffers
            /\ sessions' = IF r.created THEN Append(sessions, r.sess) ELSE sessions
            /\ rngs' = IF r.rng.kind = "new" THEN Append(rngs, r.rng.state) ELSE rngs
            /\ dms' = Append(dms, [data |-> IF r.alias = 0 THEN Len(buffers) + 1
                                             ELSE r.alias,
                                   dims |-> r.dims,
                                   aer_state |-> IF r.created THEN Len(sessions) + 1
                                                 ELSE r.sid,
                                   configs |-> r.configs,
                                   rng |-> IF r.rng.kind = "new" THEN Len(rngs) + 1
                                           ELSE r.rng.id])
       ELSE UNCHANGED <<dms, sessions, buffers, rngs>>
    /\ last' = [call EXCEPT !.outcome = r.outcome, !.msg = r.msg, !.reported = r.reported,
                            !.dm = IF r.outcome = "ok" THEN Len(dms) + 1 ELSE 0,
                            !.created = r.created, !.sess = r.sess]

(* AerDensityMatrix(data, dims=dims, **kw) *)
Construct(a) ==
    /\ Len(dms) < MaxEntities
    /\ Return([NoCall EXCEPT !.op = "construct", !.data = a.data, !.dims = a.dims,
                             !.kw = a.kw],
              __init__(a.data, a.dims, 0, a.kw))

(* AerDensityMatrix(ndarray, _aer_state=sessions[sid], **kw) *)
ConstructWithState(sid, kw) ==
    /\ Len(dms) < MaxEntities
    /\ Return([NoCall EXCEPT !.op = "construct", !.data = NdArray(P0), !.inj = sid,
                             !.kw = kw],
              __init__(NdArray(P0), DNone, sid, kw))

(* copy.copy(dms[self]) / dms[self].copy() *)
Copy(self) ==
    /\ Len(dms) < MaxEntities
    /\ Return([NoCall EXCEPT !.op = "copy", !.self = self], __deepcopy__(self))

FromInt(i, dims) ==
    /\ Len(dms) < MaxEntities
    /\ Return([NoCall EXCEPT !.op = "from_int", !.i = i, !.dims = dims], from_int(i, dims))

FromInstruction(x) ==
    /\ Len(dms) < MaxEntities
    /\ Return([NoCall EXCEPT !.op = "from_instruction", !.data = x], from_instruction(x))

Next ==
    \/ \E a \in ConstructArgs : Construct(a)
    \/ \E id \in 1..Len(dms) : \E a \in CopyFromArgs(id) : Construct(a)
    \/ \E sid \in 1..Len(sessions) : \E kw \in {<<>>, KwMethod("statevector")} :
          ConstructWithState(sid, kw)
    \/ \E self \in 1..Len(dms) : Copy(self)
    \/ \E i \in (0 - MaxIndex)..MaxIndex : \E dims \in FromIntDims : FromInt(i, dims)
    \/ \E x \in FromInstructionArgs : FromInstruction(x)

Spec == Init /\ [][Next]_vars

-----------------------------------------------------------------------------
(* to_statevector on constructed objects. *)

P1 == Mat(<< <<CZero, CZero>>, <<CZero, COne>> >>)

UpperOne == Mat(<< <<COne, COne>>, <<CZero, CZero>> >>)

Ones2 == Mat(<< <<COne, COne>>, <<COne, COne>> >>)

Id2 == Mat(<< <<COne, CZero>>, <<CZero, COne>> >>)

Zero2 == Zeros(2)

HermI == Mat(<< <<COne, C(0, 1)>>, <<C(0, 0 - 1), COne>> >>)

MinusZ == Mat(<< <<COne, CZero>>, <<CZero, C(0 - 1, 0)>> >>)

(* Matrices to_statevector is called on: basis projectors, matrices that    *)
(* are not Hermitian (one with the eigenvalues 1 and 0 of a pure state),    *)
(* projectors that are not normalized, mixtures, the zero matrix.           *)
PureArrays == {P0, P1, NonHerm, UpperOne, Ones2, Id2, Zero2, HermI, MinusZ, Diag3}

PureArgs ==
    { Args(NdArray(a), DNone, <<>>) : a \in PureArrays }
    \cup { Args(StateVec(<<CZero, C(0, 1)>>), DNone, <<>>) }

(* Bound of the model: tolerances passed to to_statevector are 0..MaxTol. *)
MaxTol == 1

TolArgs == {TNone} \cup {Tol(x) : x \in 0..MaxTol}

(* A variant of ToStatevector that overwrites the matrix with the          *)
(* projector of the vector it returns.                                      *)
ToStatevector_Overwrites(self, atol, rtol, dec) ==
    LET r == to_statevector(buffers[dms[self].data], atol, rtol, dec.evals, dec.evecs)
    IN  /\ last' = [NoCall EXCEPT !.op = "to_statevector", !.self = self,
                                  !.atol = atol, !.rtol = rtol,
                                  !.outcome = r.outcome, !.msg = r.msg, !.psi = r.psi]
        /\ buffers' = IF r.outcome = "ok"
                      THEN [buffers EXCEPT ![dms[self].data] = Outer(Vec(r.psi))]
                      ELSE buffers
        /\ UNCHANGED <<dms, sessions, rngs>>

(* dms[self].to_statevector(atol=atol, rtol=rtol), where np.linalg.eig      *)
(* returns dec.                                                             *)
ToStatevector(self, atol, rtol, dec) ==
    LET r == to_statevector(buffers[dms[self].data], atol, rtol, dec.evals, dec.evecs)
    IN  /\ last' = [NoCall EXCEPT !.op = "to_statevector", !.self = self,
                                  !.atol = atol, !.rtol = rtol,
                                  !.outcome = r.outcome, !.msg = r.msg, !.psi = r.psi]
        /\ UNCHANGED <<dms, sessions, buffers, rngs>>

(* One object is constructed and to_statevector is called on it once: the   *)
(* call leaves the object as it is, so a second call has the same outcomes. *)
NextPure ==
    \/ \E a \in PureArgs : dms = <<>> /\ Construct(a)
    \/ /\ last.op # "to_statevector"
       /\ \E self \in 1..Len(dms) : \E dec \in eig(buffers[dms[self].data]) :
             \E atol, rtol \in TolArgs : ToStatevector(self, atol, rtol, dec)

SpecPure == Init /\ [][NextPure]_vars

-----------------------------------------------------------------------------
(* to_statevector with relative tolerances above 1. *)

MinusP0 == Mat(<< <<C(0 - 1, 0), CZero>>, <<CZero, CZero>> >>)

MinusP1 == Mat(<< <<CZero, CZero>>, <<CZero, C(0 - 1, 0)>> >>)

(* Projectors with the eigenvalue 1, 2 or -1 next to the eigenvalue 0. *)
SelectArrays == {P0, P1, Ones2, MinusP0, MinusP1, Diag3}

(* Bound of the model: relative tolerances passed here are 0..MaxRtol. *)
MaxRtol == 2

RtolArgs == {TNone} \cup {Tol(x) : x \in 0..MaxRtol}

NextSelect ==
    \/ \E a \in SelectArrays : dms = <<>> /\ Construct(Args(NdArray(a), DNone, <<>>))
    \/ /\ last.op # "to_statevector"
       /\ \E self \in 1..Len(dms) : \E dec \in eig(buffers[dms[self].data]) :
             \E atol \in TolArgs : \E rtol \in RtolArgs :
                ToStatevector(self, atol, rtol, dec)

SpecSelect == Init /\ [][NextSelect]_vars

-----------------------------------------------------------------------------
(* to_statevector called again and again on one object. *)

RepeatArrays == {P0, NonHerm, Ones2, Id2, HermI, MinusP0}

RepeatArgs ==
    { Args(NdArray(a), DNone, <<>>) : a \in RepeatArrays }
    \cup { Args(NdArray(Ones2), DNone, KwMethod("density")) }

NextRepeat ==
    \/ \E a \in RepeatArgs : dms = <<>> /\ Construct(a)
    \/ \E self \in 1..Len(dms) : \E dec \in eig(buffers[dms[self].data]) :
          \E atol \in TolArgs : \E rtol \in RtolArgs : ToStatevector(self, atol, rtol, dec)

SpecRepeat == Init /\ [][NextRepeat]_vars

-----------------------------------------------------------------------------
(* copy() and in-place changes of the matrix buffer. *)

(* Bound of the model: a buffer is changed while its entry [0, 0] is below  *)
(* MaxEntry.                                                                *)
MaxEntry == 2

CopyArgs ==
    { Args(NdArray(P0), DNone, <<>>), Args(NdArray(Diag3), DNone, <<>>),
      Args(NdArray(M4), DTuple(<<4>>), <<>>), Args(Circuit(1, 1, <<"x">>), DNone, <<>>),
      Args(NdArray(P0), DNone, KwMethod("density")) }

(* dms[e]._data[0] += 1.0, as in test_copy: every entry of the first row of *)
(* the buffer grows by 1.  `last` keeps the most recent call and notes the  *)
(* object whose buffer was changed since.                                   *)
Mutate(e) ==
    /\ buffers[dms[e].data].rows[1][1][1] < MaxEntry
    /\ buffers' = [buffers EXCEPT ![dms[e].data].rows[1] =
                                    [j \in 1..Len(@) |-> CAdd(@[j], COne)]]
    /\ last' = [last EXCEPT !.touched = e]
    /\ UNCHANGED <<dms, sessions, rngs>>

NextCopy ==
    \/ \E a \in CopyArgs : Construct(a)
    \/ \E self \in 1..Len(dms) : Copy(self)
    \/ \E e \in 1..Len(dms) : Mutate(e)

SpecCopy == Init /\ [][NextCopy]_vars

-----------------------------------------------------------------------------
(* from_label on an empty heap. *)

(* Bound of the model: labels have 1..MaxLabel characters. *)
MaxLabel == 3

Labels == UNION {[1..n -> LabelChars] : n \in 1..MaxLabel}

FromLabel(label) ==
    /\ Len(dms) < MaxEntities
    /\ Return([NoCall EXCEPT !.op = "from_label", !.label = label], from_label(label))

NextLabel == \E label \in Labels : dms = <<>> /\ FromLabel(label)

SpecLabel == Init /\ [][NextLabel]_vars

-----------------------------------------------------------------------------
(* A statevector or a list, then the array it stands for. *)

(* Bound of the model: statevectors and lists have 1..MaxVec elements. *)
MaxVec == 2

Vectors == UNION {[1..n -> Digits] : n \in 1..MaxVec}

Lists ==
    UNION { {PyList(Vec(l)) : l \in [1..n -> {0, 1, 0 - 1, 2}]}
            \cup {PyList(Mat(l)) : l \in [1..n -> [1..n -> {0, 1}]]} : n \in 1..MaxVec }

(* The first object is constructed from an AerStatevector or a list, the    *)
(* second from the array that source stands for: np.outer(v, np.conj(v))    *)
(* of the amplitudes, resp. the array with the elements of the list.        *)
NextVector ==
    \/ \E v \in Vectors : dms = <<>> /\ Construct(Args(StateVec(v), DNone, <<>>))
    \/ \E l \in Lists : dms = <<>> /\ Construct(Args(l, DNone, <<>>))
    \/ /\ Len(dms) = 1
       /\ IsInstance(last.data, {"AerStatevector"})
       /\ Construct(Args(NdArray(Outer(last.data.arr)), DNone, <<>>))
    \/ /\ Len(dms) = 1
       /\ IsInstance(last.data, {"list"})
       /\ Construct(Args(NdArray(NpArrayComplex(last.data.list)), DNone, <<>>))

SpecVector == Init /\ [][NextVector]_vars

-----------------------------------------------------------------------------
(* Dispatch of the constructor over sources of side 4. *)

(* One source per branch of __init__; the objects with to_operator declare  *)
(* the output dims (4,), which differ from the dims (2, 2) the base class   *)
(* infers from a matrix of side 4.                                          *)
DispatchSources ==
    { Circuit(2, 0, <<>>), PyList(Mat([r \in 1..4 |-> [c \in 1..4 |-> r]])), NdArray(M4),
      OpObject(M4, <<4>>, TRUE), OpObject(M4, <<4>>, FALSE), MatObject(M4), Other }

DispatchDims == {DNone, DInt(4), DTuple(<<4>>), DTuple(<<2, 2>>)}

NextDispatch ==
    \/ \E d \in DispatchSources : \E dims \in DispatchDims : Construct(Args(d, dims, <<>>))
    \/ \E id \in 1..Len(dms) : \E dims \in DispatchDims :
          Construct(Args(DmRef(id), dims, <<>>))

SpecDispatch == Init /\ [][NextDispatch]_vars

-----------------------------------------------------------------------------
(* seed() and sampling (inherited from the base class QuantumState). *)

(* Bounds of the model: seeds are 1..MaxSeed, a generator is drawn from at  *)
(* most MaxDraws times, and at most MaxRngs generators are created.         *)
MaxSeed == 2

MaxDraws == 2

MaxRngs == 3

SeedNone == [given |-> FALSE, val |-> 0]

SeedInt(x) == [given |-> TRUE, val |-> x]

SeedArgs == {SeedNone} \cup {SeedInt(x) : x \in 1..MaxSeed}

(* dms[e].seed(value): value None sets _rng_generator = None, an int sets   *)
(* it to a new np.random.default_rng(value).  `last` keeps the most recent  *)
(* constructor call and notes the object and the operation on its RNG.      *)
Seed(e, value) ==
    /\ Len(rngs) < MaxRngs
    /\ rngs' = IF value.given THEN Append(rngs, Gen(value.val, 0)) ELSE rngs
    /\ dms' = [dms EXCEPT ![e].rng = IF value.given THEN Len(rngs) + 1 ELSE 0]
    /\ last' = [last EXCEPT !.touched = e, !.rngop = "seed", !.seed = value]
    /\ UNCHANGED <<sessions, buffers>>

(* dms[e].sample_memory(shots): one draw from self._rng, which is the       *)
(* object's generator or, when that is None, a fresh default_rng().         *)
SampleMemory(e) ==
    /\ dms[e].rng # 0 => rngs[dms[e].rng].draws < MaxDraws
    /\ rngs' = IF dms[e].rng = 0 THEN rngs
               ELSE [rngs EXCEPT ![dms[e].rng].draws = @ + 1]
    /\ last' = [last EXCEPT !.touched = e, !.rngop = "sample_memory", !.seed = SeedNone]
    /\ UNCHANGED <<dms, sessions, buffers>>

(* One object is constructed, seeded and sampled from; a second one is its  *)
(* copy or is constructed from it; both are seeded and sampled from.        *)
NextRng ==
    \/ dms = <<>> /\ Construct(Args(NdArray(P0), DNone, <<>>))
    \/ \E id \in 1..Len(dms) : Len(dms) = 1 /\ Construct(Args(DmRef(id), DNone, <<>>))
    \/ \E self \in 1..Len(dms) : Len(dms) = 1 /\ Copy(self)
    \/ \E e \in 1..Len(dms) : \E value \in SeedArgs : Seed(e, value)
    \/ \E e \in 1..Len(dms) : SampleMemory(e)

SpecRng == Init /\ [][NextRng]_vars

-----------------------------------------------------------------------------
(* Properties. *)

(* The call recorded in `last` went through AerDensityMatrix.__init__ with  *)
(* the caller's data. *)
IsConstruct == last.op \in {"construct", "from_instruction"}

(* The method keyword passes the test at the top of __init__. *)
MethodAccepted ==
    ~HasKey(last.kw, "method") \/ StrIn(Get(last.kw, "method"), "density_matrix")

CallsNamed(log, name) == {i \in 1..Len(log) : log[i].call = name}

(* C1: no two distinct AerDensityMatrix objects refer to the same AerState. *)
C1_NoSharedSession ==
    \A a, b \in 1..Len(dms) : a # b => dms[a].aer_state # dms[b].aer_state

C3_OneNewSessionPerConstruct ==
    (IsConstruct /\ last.outcome = "ok") =>
        /\ last.created
        /\ dms[last.dm].aer_state = Len(sessions)
        /\ \A e \in 1..Len(dms) : e # last.dm => dms[e].aer_state # dms[last.dm].aer_state

(* C4: a constructor call whose method keyword is not 'density_matrix'      *)
(* raises AerError and creates no object, whatever the other keywords.      *)
C4_OtherMethodRejected ==
    (IsConstruct /\ HasKey(last.kw, "method") /\ Get(last.kw, "method") # "density_matrix") =>
        (last.outcome = "AerError" /\ last.dm = 0)

(* C5: when a call creates an AerState, a keyword is passed to configure if *)
(* and only if it is a key of the option table.                             *)
C5_OnlyRecognizedKeysForwarded ==
    (IsConstruct /\ last.created) =>
        \A k \in {last.kw[i].key : i \in 1..Len(last.kw)} :
            (\E j \in CallsNamed(last.sess.log, "configure") : last.sess.log[j].key = k)
                <=> k \in DOMAIN DefaultOptions

(* C6: on the circuit / instruction path the AerState receives, in this     *)
(* order: the configure calls, allocate_qubits(num_qubits), initialize,     *)
(* apply_global_phase once exactly when the source is a circuit with a      *)
(* nonzero global phase, the instructions in their order, and               *)
(* move_to_ndarray last (when no instruction failed).                       *)
C6_CircuitPathCallOrder ==
    (IsConstruct /\ IsInstance(last.data, {"QuantumCircuit", "Instruction"}) /\ last.created) =>
        LET log == last.sess.log
            cfg == CallsNamed(log, "configure")
            alloc == CallsNamed(log, "allocate_qubits")
            init == CallsNamed(log, "initialize")
            phase == CallsNamed(log, "apply_global_phase")
            gates == CallsNamed(log, "apply")
            move == CallsNamed(log, "move_to_ndarray")
            withPhase == IsInstance(last.data, {"QuantumCircuit"}) /\ last.data.phase # 0
            nc == Cardinality(cfg)
            first == nc + 2 + (IF withPhase THEN 1 ELSE 0)
        IN  /\ cfg = 1..nc
            /\ alloc = {nc + 1} /\ log[nc + 1].n = last.data.nq
            /\ init = {nc + 2} /\ log[nc + 2].key = ""
            /\ phase = IF withPhase THEN {nc + 3} ELSE {}
            /\ \A i \in phase : log[i].n = last.data.phase
            /\ gates = (first + 1)..(first + Cardinality(gates))
            /\ \A i \in gates : log[i].key = last.data.ops[i - first]
            /\ last.outcome = "ok" =>
                  /\ Cardinality(gates) = Len(last.data.ops)
                  /\ move = {Len(log)}
                  /\ Len(log) = first + Cardinality(gates) + 1
            /\ last.outcome # "ok" => move = {}

(* C6 witness: a circuit with a nonzero global phase and an instruction has *)
(* been constructed with a keyword configuration.                           *)
C6_Witness ==
    /\ IsConstruct /\ IsInstance(last.data, {"QuantumCircuit"}) /\ last.outcome = "ok"
    /\ last.data.phase # 0 /\ Len(last.data.ops) > 0 /\ Len(last.kw) > 1
    /\ Cardinality(CallsNamed(last.sess.log, "apply_global_phase")) = 1

(* C7: from_int(i, dims) raises and creates no object for every i outside   *)
(* [0, D), D the product of dims.                                           *)
C7_FromIntOutOfRangeFails ==
    (last.op = "from_int" /\ (last.i < 0 \/ last.i >= Product(last.dims.val))) =>
        (last.outcome # "ok" /\ last.dm = 0)

(* C8: for 0 <= i < D, from_int(i, dims) is the D x D matrix with 1 at      *)
(* [i, i] and 0 elsewhere, with the given dims, and equals                  *)
(* AerDensityMatrix(e_i, dims=dims) for the basis vector e_i.               *)
C8_FromIntBasisState ==
    (last.op = "from_int" /\ 0 <= last.i /\ last.i < Product(last.dims.val)) =>
        LET D == Product(last.dims.val)
            e == Vec([j \in 1..D |-> IF j = last.i + 1 THEN COne ELSE CZero])
            target == __init__(NdArray(e), last.dims, 0, <<>>)
        IN  /\ last.outcome = "ok"
            /\ LET m == buffers[dms[last.dm].data]
               IN  /\ m.ndim = 2 /\ Len(m.rows) = D
                   /\ \A r \in 1..D : /\ Len(m.rows[r]) = D
                                      /\ \A c \in 1..D :
                                            m.rows[r][c] = IF r = last.i + 1 /\ c = last.i + 1
                                                           THEN COne ELSE CZero
                   /\ target.outcome = "ok" /\ target.data = m
            /\ Product(dms[last.dm].dims) = D
            /\ last.dims.kind = "tuple" => dms[last.dm].dims = last.dims.val
            /\ dms[last.dm].dims = target.dims

(* C8 witness: from_int has returned a basis state other than |0><0| on a   *)
(* dimension that is not a power of two.                                    *)
C8_Witness ==
    /\ last.op = "from_int" /\ last.outcome = "ok"
    /\ last.i > 0 /\ last.i < Product(last.dims.val)
    /\ ~IsPow2(Product(last.dims.val))
    /\ buffers[dms[last.dm].data].rows[last.i + 1][last.i + 1] = COne

(* A value the dispatch of __init__ has no branch for. *)
UnsupportedSource(v) ==
    /\ ~IsInstance(v, {"QuantumCircuit", "Instruction", "list", "ndarray", "AerDensityMatrix"})
    /\ ~v.to_operator /\ ~v.to_matrix

(* C9: the constructor on a value that is no circuit, instruction, list,    *)
(* array or AerDensityMatrix and has neither to_operator nor to_matrix      *)
(* raises AerError, creates no AerState and no object; the error is the     *)
(* unsupported-input error naming the value's type (a rejected method       *)
(* keyword is reported first, by the test that precedes the dispatch).      *)
C9_UnsupportedInputRaises ==
    (IsConstruct /\ last.inj = 0 /\ UnsupportedSource(last.data)) =>
        /\ last.outcome = "AerError"
        /\ ~last.created /\ last.sess = NoSession
        /\ last.dm = 0
        /\ MethodAccepted =>
              (last.msg = "Input data is not supported" /\ last.reported = last.data.cls)

(* C9 witness: a call on an unsupported value has raised the                *)
(* unsupported-input error.                                                 *)
C9_Witness ==
    /\ IsConstruct /\ UnsupportedSource(last.data)
    /\ last.outcome = "AerError" /\ last.msg = "Input data is not supported"
    /\ last.reported = "int"

(* The array the array path of __init__ hands to _from_ndarray. *)
ArrayOf(v) ==
    IF IsInstance(v, {"list"}) THEN NpArrayComplex(v.list)
    ELSE IF IsInstance(v, {"ndarray"}) THEN v.arr
    ELSE ToOperator(v).data

EmptySource(v) ==
    /\ \/ IsInstance(v, {"list", "ndarray"})
       \/ (~IsInstance(v, {"QuantumCircuit", "Instruction", "AerDensityMatrix"})
           /\ (v.to_operator \/ v.to_matrix))
    /\ PyLen(ArrayOf(v)) = 0

(* C10: the constructor on an empty list or zero-length array, given        *)
(* directly or through to_operator / to_matrix, raises AerError and creates *)
(* no object; its AerState is never allocated or initialized.  The error is *)
(* the empty-data error (a rejected method keyword is reported first).      *)
C10_EmptyDataRaises ==
    (IsConstruct /\ last.inj = 0 /\ EmptySource(last.data)) =>
        /\ last.outcome = "AerError"
        /\ last.dm = 0
        /\ CallsNamed(last.sess.log, "allocate_qubits") = {}
        /\ CallsNamed(last.sess.log, "initialize") = {}
        /\ last.sess.num_qubits = 0 /\ last.sess.buf = NoArr
        /\ MethodAccepted => last.msg = "initial data must be larger than 0"

(* C10 witness: an empty array obtained through to_operator has been        *)
(* rejected after its AerState was created and configured.                  *)
C10_Witness ==
    /\ IsConstruct /\ EmptySource(last.data) /\ last.data.to_operator
    /\ last.outcome = "AerError" /\ last.msg = "initial data must be larger than 0"
    /\ last.created /\ Len(last.sess.log) > 0

-----------------------------------------------------------------------------
(* Properties of to_statevector (specification SpecPure). *)

(* The object to_statevector was called on, and the tolerances in force     *)
(* (lines 219-222). *)
SelfData == buffers[dms[last.self].data]

AtolInForce == IF last.atol.given THEN last.atol.val ELSE DefaultTol.atol

RtolInForce == IF last.rtol.given THEN last.rtol.val ELSE DefaultTol.rtol

(* Some entry differs from the conjugate of its mirror entry by more than   *)
(* atol + rtol * |mirror entry|.                                            *)
NonHermitian(m, atol, rtol) ==
    \E i, j \in 1..Len(m.rows) :
        ~IsClose(m.rows[i][j], Conj(m.rows[j][i]), atol, rtol)

(* C11: to_statevector on a matrix that is not Hermitian within the         *)
(* tolerances in force raises the non-Hermitian error, never the not-pure   *)
(* error, and returns no vector, whatever the eigenvalues of the matrix.    *)
C11_NonHermitianRaisesFirst ==
    (last.op = "to_statevector" /\ NonHermitian(SelfData, AtolInForce, RtolInForce)) =>
        /\ last.outcome = "QiskitError"
        /\ last.msg = "Not a valid density matrix (non-hermitian)."
        /\ last.psi = <<>>

(* C11 witness: the non-Hermitian error has been raised for a matrix whose  *)
(* eigenvalues, 1 and 0, are those of a pure state.                         *)
C11_Witness ==
    /\ last.op = "to_statevector" /\ SelfData = UpperOne
    /\ 1 \in {Len(NonzeroEvals(e, AtolInForce)) : e \in Spectra(SelfData)}
    /\ last.outcome = "QiskitError"
    /\ last.msg = "Not a valid density matrix (non-hermitian)."

(* The eigenvalues of m of magnitude above atol, as positions in one        *)
(* ordering of the spectrum.                                                *)
Spectrum(m) == CHOOSE e \in Spectra(m) : TRUE

NonzeroPositions(m, atol) ==
    {k \in 1..Len(m.rows) : Abs2(Spectrum(m)[k]) > atol * atol}

(* C12: on a matrix that is Hermitian within the tolerances, to_statevector *)
(* returns a vector if and only if exactly one eigenvalue has magnitude     *)
(* above atol and that eigenvalue is within (atol, rtol) of 1; otherwise it *)
(* raises the not-pure error.                                               *)
C12_VectorIffOneUnitEigenvalue ==
    (last.op = "to_statevector" /\ ~NonHermitian(SelfData, AtolInForce, RtolInForce)) =>
        LET nz == NonzeroPositions(SelfData, AtolInForce)
            pure == /\ Cardinality(nz) = 1
                    /\ \A k \in nz : IsClose(Spectrum(SelfData)[k], COne,
                                              AtolInForce, RtolInForce)
        IN  /\ last.outcome = "ok" <=> pure
            /\ last.outcome = "ok" => Len(last.psi) = Len(SelfData.rows)
            /\ ~pure => (/\ last.outcome = "QiskitError"
                         /\ last.msg = "Density matrix is not a pure state"
                         /\ last.psi = <<>>)

(* C12 witness: the not-pure error has been raised for the sum of two       *)
(* orthogonal basis projectors with equal weights.                          *)
C12_Witness ==
    /\ last.op = "to_statevector" /\ SelfData = Id2
    /\ Cardinality(NonzeroPositions(SelfData, AtolInForce)) = 2
    /\ last.outcome = "QiskitError" /\ last.msg = "Density matrix is not a pure state"

(* The normalized vectors v with outer(v, conj(v)) = m. *)
UnitVectorsOf(m) ==
    {v \in EigVecDomain(Len(m.rows)) : Norm2(v) = 1 /\ Outer(Vec(v)) = m}

(* C13: to_statevector on the object constructed from outer(v, conj(v)),    *)
(* v normalized, with an absolute tolerance below 1, returns a vector psi   *)
(* with |<psi|v>| = 1 (psi stands for psi / sqrt(Norm2(psi))).              *)
C13_RoundTripUpToPhase ==
    (last.op = "to_statevector" /\ AtolInForce = 0 /\ UnitVectorsOf(SelfData) # {}) =>
        /\ last.outcome = "ok"
        /\ \A v \in UnitVectorsOf(SelfData) :
              Abs2(Inner(last.psi, v)) = Norm2(last.psi) * Norm2(v)

(* C13 witness: the vector returned for a basis state of dimension 3 is     *)
(* that state times the phase i.                                            *)
C13_Witness ==
    /\ last.op = "to_statevector" /\ last.outcome = "ok"
    /\ <<CZero, COne, CZero>> \in UnitVectorsOf(SelfData)
    /\ last.psi = <<CZero, C(0, 1), CZero>>

-----------------------------------------------------------------------------
(* Properties of copy (specification SpecCopy). *)

(* The most recent call is a copy that returned; orig and cpy are           *)
(* last.self and last.dm.                                                   *)
Copied(l) == l.op = "copy" /\ l.outcome = "ok"

(* C14: when cpy = orig.copy() returns, cpy's matrix equals orig's and the  *)
(* dims are the same; from then on a change of the buffer of one of the two *)
(* leaves the buffer of the other as it was.                                *)
C14_CopyIsIndependent ==
    [][ /\ (Copied(last') /\ last'.touched = 0) =>
              /\ buffers'[dms'[last'.dm].data] = buffers'[dms'[last'.self].data]
              /\ dms'[last'.dm].dims = dms'[last'.self].dims
        /\ (Copied(last) /\ Copied(last') /\ buffers' # buffers) =>
              /\ last'.touched = last.dm =>
                    buffers'[dms[last.self].data] = buffers[dms[last.self].data]
              /\ last'.touched = last.self =>
                    buffers'[dms[last.dm].data] = buffers[dms[last.dm].data]
      ]_vars

(* C14 witness: the buffer of a copy has been changed and the original,     *)
(* with dims (4,), still holds the matrix it was constructed from.          *)
C14_Witness ==
    /\ Copied(last) /\ last.touched = last.dm
    /\ buffers[dms[last.self].data] = M4
    /\ buffers[dms[last.dm].data] # M4
    /\ dms[last.dm].dims = <<4>> /\ dms[last.self].dims = <<4>>

-----------------------------------------------------------------------------
(* Properties of construction (specification Spec), continued. *)

(* The circuit or instruction v holds an instruction that cannot be         *)
(* applied, the first of them at position FirstFailing(v).                  *)
HasFailing(v) == \E k \in 1..Len(v.ops) : v.ops[k] \notin KnownGates

FirstFailing(v) ==
    CHOOSE k \in 1..Len(v.ops) :
        v.ops[k] \notin KnownGates /\ \A j \in 1..(k - 1) : v.ops[j] \in KnownGates

(* C15: the constructor on a circuit or instruction with an instruction     *)
(* that cannot be applied raises AerError and creates no object; the        *)
(* AerState has received the instructions before the failing one, in their  *)
(* order, and nothing after them: not the failing one, no later one, no     *)
(* move_to_ndarray.                                                         *)
C15_FailingInstructionFailsConstruct ==
    (/\ IsConstruct /\ last.inj = 0
     /\ IsInstance(last.data, {"QuantumCircuit", "Instruction"})
     /\ HasFailing(last.data)) =>
        /\ last.outcome = "AerError"
        /\ last.dm = 0
        /\ MethodAccepted =>
              LET log == last.sess.log
                  gates == CallsNamed(log, "apply")
                  n == FirstFailing(last.data) - 1
              IN  /\ last.created
                  /\ Cardinality(gates) = n
                  /\ gates = (Len(log) - n + 1)..Len(log)
                  /\ \A i \in gates : log[i].key = last.data.ops[i - (Len(log) - n)]
                  /\ CallsNamed(log, "move_to_ndarray") = {}

(* C15 witness: a circuit x, foo, x has been rejected after its first x was *)
(* applied.                                                                 *)
C15_Witness ==
    /\ IsConstruct /\ IsInstance(last.data, {"QuantumCircuit"})
    /\ HasFailing(last.data) /\ FirstFailing(last.data) = 2 /\ Len(last.data.ops) = 3
    /\ last.outcome = "AerError"
    /\ Cardinality(CallsNamed(last.sess.log, "apply")) = 1

(* The call recorded in l went through AerDensityMatrix.__init__ and        *)
(* raised.                                                                  *)
ConstructFailed(l) ==
    l.op \in {"construct", "from_instruction"} /\ l.outcome # "ok" /\ l.touched = 0

(* C16: a constructor call that raises leaves every object, every AerState  *)
(* and every buffer that existed before the call as it was, and adds none.  *)
C16_FailedConstructChangesNothing ==
    [][ ConstructFailed(last') =>
            (dms' = dms /\ sessions' = sessions /\ buffers' = buffers /\ rngs' = rngs) ]_vars

(* C16 witness: the constructor has raised on an existing AerDensityMatrix  *)
(* (dims that do not fit), and that object's AerState still ends with the   *)
(* move_to_ndarray of its own construction.                                 *)
C16_Witness ==
    /\ ConstructFailed(last) /\ IsInstance(last.data, {"AerDensityMatrix"})
    /\ last.outcome = "QiskitError"
    /\ LET s == sessions[dms[last.data.id].aer_state]
       IN  s.log[Len(s.log)].call = "move_to_ndarray"

(* C17: from_instruction takes the circuit path only: on a circuit or       *)
(* instruction its AerState starts from the reference state, and on any     *)
(* other argument it raises without creating an AerState or an object.      *)
C17_FromInstructionCircuitPathOnly ==
    last.op = "from_instruction" =>
        IF IsInstance(last.data, {"QuantumCircuit", "Instruction"})
        THEN /\ last.created
             /\ \E i \in CallsNamed(last.sess.log, "initialize") : last.sess.log[i].key = ""
        ELSE last.outcome # "ok" /\ last.dm = 0 /\ ~last.created

(* num_qubits of the base class: the number of subsystems when all are      *)
(* qubits, None (-1) otherwise.                                             *)
NumQubits(dims) == IF \A k \in 1..Len(dims) : dims[k] = 2 THEN Len(dims) ELSE 0 - 1

(* A list or array that is a square matrix of side 2^n, n >= 1. *)
QubitMatrix(v) ==
    /\ IsInstance(v, {"list", "ndarray"})
    /\ IsSquare(ArrayOf(v))
    /\ PyLen(ArrayOf(v)) >= 2 /\ IsPow2(PyLen(ArrayOf(v)))

(* C18: the constructor on a square matrix of side D = 2^n, with dims       *)
(* omitted or given as the int D, returns an object whose matrix equals the *)
(* input entry by entry, whose dims are n copies of 2 and whose num_qubits  *)
(* is n.                                                                    *)
C18_QubitMatrixKept ==
    (/\ IsConstruct /\ last.inj = 0 /\ MethodAccepted
     /\ QubitMatrix(last.data)
     /\ \/ last.dims.kind = "none"
        \/ (last.dims.kind = "int" /\ last.dims.val[1] = PyLen(ArrayOf(last.data)))) =>
        LET D == PyLen(ArrayOf(last.data))
            n == Log2Floor(D)
        IN  /\ last.outcome = "ok"
            /\ LET m == buffers[dms[last.dm].data]
               IN  /\ m.ndim = 2 /\ Len(m.rows) = D
                   /\ \A r, c \in 1..D : m.rows[r][c] = ArrayOf(last.data).rows[r][c]
            /\ dms[last.dm].dims = [k \in 1..n |-> 2]
            /\ NumQubits(dms[last.dm].dims) = n
            /\ last.sess.num_qubits = n

(* C18 witness: a 4 x 4 matrix with pairwise different entries has been     *)
(* constructed with dims = 4.                                               *)
C18_Witness ==
    /\ IsConstruct /\ last.data = NdArray(M4) /\ last.dims = DInt(4)
    /\ last.outcome = "ok"
    /\ buffers[dms[last.dm].data].rows[2][3] = C(2, 3)
    /\ NumQubits(dms[last.dm].dims) = 2

(* The side of the matrix the constructor derives from v. *)
SourceSide(v) ==
    IF IsInstance(v, {"QuantumCircuit", "Instruction"}) THEN Pow2(v.nq)
    ELSE IF IsInstance(v, {"AerDensityMatrix"}) THEN Len(buffers[dms[v.id].data].rows)
    ELSE PyLen(ArrayOf(v))

(* Every object has a square matrix whose side is the product of its dims. *)
DimsFitMatrix ==
    \A e \in 1..Len(dms) :
        /\ IsSquare(buffers[dms[e].data])
        /\ Len(buffers[dms[e].data].rows) = Product(dms[e].dims)

(* A dims argument whose product is not the side of the matrix makes the    *)
(* constructor raise.                                                       *)
MismatchFails ==
    (/\ IsConstruct /\ last.inj = 0 /\ last.dims.kind # "none"
     /\ ~UnsupportedSource(last.data)
     /\ Product(last.dims.val) # SourceSide(last.data)) =>
        (last.outcome # "ok" /\ last.dm = 0)

(* C19, as stated: every object has a square matrix of side D, the product  *)
(* of its dims; with dims omitted the dims are n copies of 2 when D = 2^n   *)
(* and (D,) otherwise; dims whose product is not D make the constructor     *)
(* raise.                                                                   *)
C19_OmittedDimsAlwaysInferred ==
    /\ DimsFitMatrix
    /\ MismatchFails
    /\ (IsConstruct /\ last.outcome = "ok" /\ last.dims.kind = "none") =>
          dms[last.dm].dims = AutoDims(Len(buffers[dms[last.dm].data].rows))

(* C19, amended: as above, but with dims omitted the dims are inferred from *)
(* D only for a source that has no dims of its own; the dims of an          *)
(* AerDensityMatrix source and the output dims of a to_operator source are  *)
(* taken over.                                                              *)
C19_OmittedDimsInferredOrInherited ==
    /\ DimsFitMatrix
    /\ MismatchFails
    /\ (IsConstruct /\ last.inj = 0 /\ last.outcome = "ok" /\ last.dims.kind = "none") =>
          dms[last.dm].dims =
             IF IsInstance(last.data, {"QuantumCircuit", "Instruction", "list", "ndarray"})
             THEN AutoDims(Len(buffers[dms[last.dm].data].rows))
             ELSE IF IsInstance(last.data, {"AerDensityMatrix"})
             THEN dms[last.data.id].dims
             ELSE IF last.data.to_operator
             THEN last.data.odims
             ELSE AutoDims(Len(buffers[dms[last.dm].data].rows))

(* C19 witness: a 3 x 3 matrix has been constructed with dims omitted and   *)
(* has the single subsystem (3,), and an object exists with dims given.     *)
C19_Witness ==
    /\ IsConstruct /\ last.data = NdArray(Diag3) /\ last.dims.kind = "none"
    /\ last.outcome = "ok"
    /\ dms[last.dm].dims = <<3>>
    /\ \E e \in 1..Len(dms) : dms[e].dims = <<4>>

(* C20: the constructor on a circuit without instructions and with global   *)
(* phase 0 over N qubits returns the 2^N x 2^N matrix with 1 at [0, 0] and  *)
(* 0 elsewhere.                                                             *)
C20_EmptyCircuitGivesReferenceState ==
    (/\ IsConstruct /\ last.inj = 0 /\ MethodAccepted
     /\ IsInstance(last.data, {"QuantumCircuit"})
     /\ last.data.ops = <<>> /\ last.data.phase = 0) =>
        /\ last.outcome = "ok"
        /\ LET m == buffers[dms[last.dm].data]
               D == Pow2(last.data.nq)
           IN  /\ m.ndim = 2 /\ Len(m.rows) = D
               /\ \A r \in 1..D : Len(m.rows[r]) = D
               /\ \A r, c \in 1..D :
                     m.rows[r][c] = IF r = 1 /\ c = 1 THEN COne ELSE CZero

(* C20 witness: an empty circuit over 2 qubits has been constructed. *)
C20_Witness ==
    /\ IsConstruct /\ IsInstance(last.data, {"QuantumCircuit"})
    /\ last.data.ops = <<>> /\ last.data.nq = 2
    /\ last.outcome = "ok"
    /\ Len(buffers[dms[last.dm].data].rows) = 4
    /\ buffers[dms[last.dm].data].rows[1][1] = COne

-----------------------------------------------------------------------------
(* from_label (SpecLabel). *)

(* The reference matrix of a label character, from the table of             *)
(* from_label's docstring: numerators over 1 for 0 and 1, over 2 for the    *)
(* other characters.                                                        *)
LabelMatrix(ch) ==
    CASE ch = "0" -> Mat(<< <<COne, CZero>>, <<CZero, CZero>> >>)
      [] ch = "1" -> Mat(<< <<CZero, CZero>>, <<CZero, COne>> >>)
      [] ch = "+" -> Mat(<< <<COne, COne>>, <<COne, COne>> >>)
      [] ch = "-" -> Mat(<< <<COne, C(0 - 1, 0)>>, <<C(0 - 1, 0), COne>> >>)
      [] ch = "r" -> Mat(<< <<COne, C(0, 0 - 1)>>, <<C(0, 1), COne>> >>)
      [] ch = "l" -> Mat(<< <<COne, C(0, 1)>>, <<C(0, 0 - 1), COne>> >>)

RECURSIVE TensorOfLabel(_)
(* LabelMatrix(label[1]) (x) LabelMatrix(label[2]) (x) ..., left to right;  *)
(* the denominators multiply to 2^k, k the number of characters out of      *)
(* +, -, r, l.                                                              *)
TensorOfLabel(label) ==
    IF Len(label) = 1 THEN LabelMatrix(label[1])
    ELSE Kron(LabelMatrix(Head(label)), TensorOfLabel(Tail(label)))

(* C21: for every label over 0, 1, +, -, r, l, from_label(label) returns    *)
(* an object whose matrix is the tensor product, left to right in the       *)
(* label's character order, of the reference matrices of its characters,    *)
(* on len(label) qubits.                                                    *)
C21_FromLabelIsTensorProduct ==
    last.op = "from_label" =>
        /\ last.outcome = "ok"
        /\ buffers[dms[last.dm].data] = TensorOfLabel(last.label)
        /\ dms[last.dm].dims = [k \in 1..Len(last.label) |-> 2]

(* from_label has returned for a label of an X eigenstate, a Y eigenstate   *)
(* and a basis state whose reversal is a different state.                   *)
C21_Witness ==
    /\ last.op = "from_label"
    /\ last.label = <<"0", "+", "r">>
    /\ last.outcome = "ok"
    /\ buffers[dms[last.dm].data] # TensorOfLabel(Reversed(last.label))

-----------------------------------------------------------------------------
(* Statevector and list sources (SpecVector). *)

(* C22: constructing from an AerStatevector with amplitudes v gives an      *)
(* object equal (same matrix, same dims) to the one constructed from        *)
(* np.outer(v, np.conj(v)), normalized or not, and constructing from a list *)
(* gives an object equal to the one constructed from the array with the     *)
(* same elements.  In SpecVector the first call is always accepted, and the *)
(* second object is constructed from the array of the first one's source.   *)
C22_VectorAndListEqualTheirArray ==
    /\ Len(dms) >= 1 => last.outcome = "ok"
    /\ Len(dms) = 2 =>
          /\ buffers[dms[1].data] = buffers[dms[2].data]
          /\ dms[1].dims = dms[2].dims

(* Both objects exist for the amplitudes (1, i), which are not normalized   *)
(* and whose outer product differs from its transpose.                      *)
C22_Witness ==
    /\ Len(dms) = 2
    /\ last.data = NdArray(Outer(Vec(<<COne, C(0, 1)>>)))
    /\ last.outcome = "ok"
    /\ buffers[dms[1].data] = Mat(<< <<COne, C(0, 0 - 1)>>, <<C(0, 1), C(1, 0)>> >>)

-----------------------------------------------------------------------------
(* RNG isolation (SpecRng). *)

-----------------------------------------------------------------------------
(* Selection of the eigenvector (SpecSelect). *)

(* C24: a vector returned by to_statevector is an eigenvector of the matrix *)
(* for an eigenvalue whose magnitude exceeds the absolute tolerance in      *)
(* force, whatever the order of the solver's eigenpairs and whatever the    *)
(* tolerances; never an eigenvector of an eigenvalue classified as zero.    *)
C24_ReturnsEigenvectorOfNonzeroEigenvalue ==
    (last.op = "to_statevector" /\ last.outcome = "ok") =>
        \E lam \in EvalDomain :
            /\ Abs2(lam) > AtolInForce * AtolInForce
            /\ MatVec(SelfData, last.psi) = [i \in 1..Len(last.psi) |-> CMul(lam, last.psi[i])]

-----------------------------------------------------------------------------
(* Qubits allocated on the array path (Spec). *)

(* The source is handled by a branch of __init__ that calls _from_ndarray. *)
OnArrayPath(v) ==
    \/ IsInstance(v, {"list", "ndarray"})
    \/ (~IsInstance(v, {"QuantumCircuit", "Instruction", "AerDensityMatrix"})
        /\ (v.to_operator \/ v.to_matrix))

(* C25: when the constructor accepts a nonempty source on the array path,   *)
(* of first-dimension length L, its AerState was allocated once, with n     *)
(* qubits such that 2^n = L, also when L is not a power of two.             *)
C25_AllocatedQubitsMatchLength ==
    (IsConstruct /\ last.inj = 0 /\ OnArrayPath(last.data) /\ last.outcome = "ok") =>
        /\ Cardinality(CallsNamed(last.sess.log, "allocate_qubits")) = 1
        /\ \A k \in CallsNamed(last.sess.log, "allocate_qubits") :
              Pow2(last.sess.log[k].n) = PyLen(ArrayOf(last.data))

-----------------------------------------------------------------------------
(* Dispatch (SpecDispatch). *)

(* The path a successful constructor call took, by what it left behind: no  *)
(* AerState of its own (copy), an AerState initialized to the reference     *)
(* state (circuit) or an AerState initialized from data (array).            *)
PathTaken(l) ==
    IF ~l.created THEN "copy"
    ELSE IF \E k \in CallsNamed(l.sess.log, "initialize") : l.sess.log[k].key = "data"
    THEN "array"
    ELSE "circuit"

(* The source has an operator projection and is none of the classes tested *)
(* by isinstance.                                                           *)
OperatorSource(v) ==
    /\ ~IsInstance(v, {"QuantumCircuit", "Instruction", "list", "ndarray", "AerDensityMatrix"})
    /\ v.to_operator

(* C26: every accepted source is handled by one path, fixed by its kind: a  *)
(* circuit or instruction by the circuit path, an AerDensityMatrix by the   *)
(* copy path (no AerState is created, although it has to_operator), every   *)
(* other accepted source by the array path, an object with to_operator and  *)
(* to_matrix through to_operator.  The dims of the new object are the       *)
(* projection's output dims exactly when the source went through            *)
(* to_operator and no dims were given; given dims are kept, and otherwise   *)
(* the dims are inherited (copy path) or inferred from the matrix side.     *)
C26_DispatchExclusive ==
    (last.op = "construct" /\ last.inj = 0 /\ last.outcome = "ok") =>
        LET v == last.data
            new == dms[last.dm]
        IN  /\ PathTaken(last) =
                  (IF IsInstance(v, {"QuantumCircuit", "Instruction"}) THEN "circuit"
                   ELSE IF IsInstance(v, {"AerDensityMatrix"}) THEN "copy"
                   ELSE "array")
            /\ IsInstance(v, {"AerDensityMatrix"}) =>
                  /\ new.aer_state = dms[v.id].aer_state
                  /\ buffers[new.data] = buffers[dms[v.id].data]
            /\ new.dims =
                  (IF last.dims.kind = "tuple" THEN last.dims.val
                   ELSE IF last.dims.kind = "none" /\ OperatorSource(v) THEN v.odims
                   ELSE IF last.dims.kind = "none" /\ IsInstance(v, {"AerDensityMatrix"})
                   THEN dms[v.id].dims
                   ELSE AutoDims(Len(buffers[new.data].rows)))

(* An AerDensityMatrix built from an object with to_operator and to_matrix  *)
(* (dims (4,) from the projection) has itself been passed to the            *)
(* constructor, with dims (2, 2): the copy path was taken.                  *)
C26_Witness ==
    /\ last.op = "construct" /\ last.outcome = "ok"
    /\ IsInstance(last.data, {"AerDensityMatrix"})
    /\ last.dims = DTuple(<<2, 2>>)
    /\ dms[last.data.id].dims = <<4>>
    /\ dms[last.dm].dims = <<2, 2>>
    /\ PathTaken(last) = "copy"
    /\ Len(sessions) = 1
    /\ sessions[1].buf = M4

-----------------------------------------------------------------------------
(* to_statevector is read-only (SpecRepeat). *)

(* C27: a call of to_statevector, whether it returns a vector or raises one *)
(* of its two errors, leaves every object (matrix buffer, dims, stored      *)
(* configuration, AerState, generator) as it was, and a call that follows a *)
(* call on the same object with the same tolerances has the same outcome:   *)
(* a vector again, or the same error again, whatever the solver returns.    *)
C27_ToStatevectorReadOnly ==
    [][ last'.op = "to_statevector" =>
          /\ dms' = dms /\ sessions' = sessions /\ buffers' = buffers /\ rngs' = rngs
          /\ (/\ last.op = "to_statevector"
              /\ last'.self = last.self
              /\ last'.atol = last.atol /\ last'.rtol = last.rtol) =>
                 (last'.outcome = last.outcome /\ last'.msg = last.msg)
      ]_vars

(* to_statevector has returned a vector for an object constructed with a    *)
(* stored configuration, whose matrix and AerState are as constructed.      *)
C27_Witness ==
    /\ last.op = "to_statevector" /\ last.outcome = "ok"
    /\ last.psi # <<>>
    /\ dms[last.self].configs = KwMethod("density")
    /\ SelfData = Ones2
    /\ sessions[dms[last.self].aer_state].buf = Ones2

====
